---- MODULE Spec2Model ----
(***************************************************************************)
(* Model of the resume parser (src/pdf_parser/parser.py) and of the vector *)
(* store glue (src/cv.py).                                                 *)
(*                                                                         *)
(* A Python str is a sequence of characters; a character is a one-letter   *)
(* TLA+ string ("a", "-", "\n"), and a non-ASCII character is written by   *)
(* its code point ("U+2022").  An Optional value is a tagged record: None, *)
(* Str(s) or EmptyDict.                                                    *)
(***************************************************************************)
EXTENDS Integers, Sequences, FiniteSets, TLC

VARIABLES
    cText, cPrev, cPasses,                  \* repeated clean_text passes
    nLines, nResult, nPc,                   \* one extract_name call
    sText, sSkills, sEducation, sWork, sDone, \* the three section extractors on one text
    wLines, wText, wFallback, wResult, wPc, \* one extract_work_experience call
    folder, idx, all_data, full_text, handed, \* extract_from_folder
    pc, store, disk, upd, fresh, before, new_doc \* main and add_or_update_document

cleanVars == <<cText, cPrev, cPasses>>
nameVars == <<nLines, nResult, nPc>>
sectionVars == <<sText, sSkills, sEducation, sWork, sDone>>
workVars == <<wLines, wText, wFallback, wResult, wPc>>
folderVars == <<folder, idx, all_data, full_text, handed>>
storeVars == <<pc, store, disk, upd, fresh, before, new_doc>>
mainVars == <<folderVars, storeVars>>
vars == <<cleanVars, nameVars, sectionVars, workVars, mainVars>>

----------------------------------------------------------------------------
(* Python values *)

None == [kind |-> "None"]
EmptyDict == [kind |-> "dict"]
Str(s) == [kind |-> "str", val |-> s]

\* Python truthiness of an Optional[str]: None and "" are falsy
Truthy(v) == v.kind = "str" /\ v.val # <<>>

----------------------------------------------------------------------------
(* Character classes of Python's re module and of str.strip() *)

UpperLetters ==
    {"A","B","C","D","E","F","G","H","I","J","K","L","M",
     "N","O","P","Q","R","S","T","U","V","W","X","Y","Z"}
LowerLetters ==
    {"a","b","c","d","e","f","g","h","i","j","k","l","m",
     "n","o","p","q","r","s","t","u","v","w","x","y","z"}
Digits == {"0","1","2","3","4","5","6","7","8","9"}
Letters == UpperLetters \cup LowerLetters
\* \s
Whitespace == {" ", "\t", "\n", "\r", "\f"}
\* \w (ASCII part)
WordChars == Letters \cup Digits \cup {"_"}
\* characters outside \x00-\x7F that the model's inputs use
Bullet == "U+2022"
MiddleDot == "U+00B7"
EnDash == "U+2013"
EmDash == "U+2014"
MinusSign == "U+2212"
EAcute == "U+00E9"
LoneSurrogate == "U+D800"
NonAscii == {Bullet, MiddleDot, EnDash, EmDash, MinusSign, EAcute, LoneSurrogate}

UpperPairs ==
    <<"A","B","C","D","E","F","G","H","I","J","K","L","M",
      "N","O","P","Q","R","S","T","U","V","W","X","Y","Z">>
LowerPairs ==
    <<"a","b","c","d","e","f","g","h","i","j","k","l","m",
      "n","o","p","q","r","s","t","u","v","w","x","y","z">>
\* case folding used by re.IGNORECASE
Lower(c) ==
    IF c \in UpperLetters
    THEN LowerPairs[CHOOSE i \in 1..26 : UpperPairs[i] = c]
    ELSE c
SameCI(a, b) == Lower(a) = Lower(b)

----------------------------------------------------------------------------
(* String primitives *)

Min(a, b) == IF a < b THEN a ELSE b

\* s[i:] (1-based, i may be Len(s)+1)
From(s, i) == SubSeq(s, i, Len(s))

\* first index >= i whose character is not in class, or Len(s)+1
RECURSIVE SkipClass(_, _, _)
SkipClass(s, i, class) ==
    IF i <= Len(s) /\ s[i] \in class THEN SkipClass(s, i + 1, class) ELSE i

\* whether the literal pat occurs in s at index i
StartsAt(s, i, pat) ==
    /\ i >= 1
    /\ i + Len(pat) - 1 <= Len(s)
    /\ \A k \in 1..Len(pat) : s[i + k - 1] = pat[k]

\* the same under re.IGNORECASE
StartsAtCI(s, i, pat) ==
    /\ i >= 1
    /\ i + Len(pat) - 1 <= Len(s)
    /\ \A k \in 1..Len(pat) : SameCI(s[i + k - 1], pat[k])

\* str.replace(pat, rep): leftmost non-overlapping occurrences
RECURSIVE ReplaceFrom(_, _, _, _)
ReplaceFrom(s, i, pat, rep) ==
    IF i > Len(s) THEN <<>>
    ELSE IF StartsAt(s, i, pat)
         THEN rep \o ReplaceFrom(s, i + Len(pat), pat, rep)
         ELSE <<s[i]>> \o ReplaceFrom(s, i + 1, pat, rep)
Replace(s, pat, rep) == ReplaceFrom(s, 1, pat, rep)

\* re.sub(r'[class]', '', s)
RemoveClass(s, class) == SelectSeq(s, LAMBDA c : c \notin class)

\* str.strip(chars)
RECURSIVE LastKept(_, _, _)
LastKept(s, j, class) ==
    IF j >= 1 /\ s[j] \in class THEN LastKept(s, j - 1, class) ELSE j
StripChars(s, class) ==
    SubSeq(s, SkipClass(s, 1, class), LastKept(s, Len(s), class))
\* str.strip()
Strip(s) == StripChars(s, Whitespace)

----------------------------------------------------------------------------
(* clean_text: the Text Normalizer *)

\* text.encode('utf-8', 'ignore').decode('utf-8', 'ignore'): a lone surrogate
\* cannot be encoded and is dropped
EncodeDecode(s) == RemoveClass(s, {LoneSurrogate})

\* for ch in bullet_chars: replace '\n'+ch by '\n', then ch by ''
RECURSIVE StripBullets(_, _)
StripBullets(s, chars) ==
    IF chars = <<>> THEN s
    ELSE StripBullets(
            Replace(Replace(s, <<"\n", Head(chars)>>, <<"\n">>), <<Head(chars)>>, <<>>),
            Tail(chars))
bullet_chars == <<MiddleDot, MiddleDot, Bullet>>

\* for ch in dash_chars: replace ch by '-'
RECURSIVE AsciiDashes(_, _)
AsciiDashes(s, chars) ==
    IF chars = <<>> THEN s
    ELSE AsciiDashes(Replace(s, <<Head(chars)>>, <<"-">>), Tail(chars))
dash_chars == <<EnDash, EmDash, MinusSign, EnDash, EmDash>>

\* re.sub(r'-{2,}', '-', s)
RECURSIVE CollapseDashes(_, _)
CollapseDashes(s, i) ==
    IF i > Len(s) THEN <<>>
    ELSE IF s[i] = "-" /\ i < Len(s) /\ s[i + 1] = "-"
         THEN <<"-">> \o CollapseDashes(s, SkipClass(s, i, {"-"}))
         ELSE <<s[i]>> \o CollapseDashes(s, i + 1)

\* re.sub(r'\s*-\s*', ' - ', s)
RECURSIVE SpaceDashes(_, _)
SpaceDashes(s, i) ==
    IF i > Len(s) THEN <<>>
    ELSE LET j == SkipClass(s, i, Whitespace)
         IN IF j <= Len(s) /\ s[j] = "-"
            THEN <<" ", "-", " ">> \o SpaceDashes(s, SkipClass(s, j + 1, Whitespace))
            ELSE <<s[i]>> \o SpaceDashes(s, i + 1)

\* re.sub(r'\r\n|\r|\n+', '\n', s)
RECURSIVE NormalizeNewlines(_, _)
NormalizeNewlines(s, i) ==
    IF i > Len(s) THEN <<>>
    ELSE IF StartsAt(s, i, <<"\r", "\n">>)
         THEN <<"\n">> \o NormalizeNewlines(s, i + 2)
         ELSE IF s[i] = "\r"
              THEN <<"\n">> \o NormalizeNewlines(s, i + 1)
              ELSE IF s[i] = "\n"
                   THEN <<"\n">> \o NormalizeNewlines(s, SkipClass(s, i, {"\n"}))
                   ELSE <<s[i]>> \o NormalizeNewlines(s, i + 1)

\* re.sub(r'\s*XY\s*', '', s, flags=re.IGNORECASE) for a two-character token
RECURSIVE RemoveArtifact(_, _, _)
RemoveArtifact(s, i, token) ==
    IF i > Len(s) THEN <<>>
    ELSE LET j == SkipClass(s, i, Whitespace)
         IN IF StartsAtCI(s, j, token)
            THEN RemoveArtifact(s, SkipClass(s, j + Len(token), Whitespace), token)
            ELSE <<s[i]>> \o RemoveArtifact(s, i + 1, token)

\* re.sub(r'\n[\-\.·]+\s*', '\n', s)
LinePrefixChars == {"-", ".", MiddleDot}
RECURSIVE StripLinePrefixes(_, _)
StripLinePrefixes(s, i) ==
    IF i > Len(s) THEN <<>>
    ELSE IF s[i] = "\n" /\ i < Len(s) /\ s[i + 1] \in LinePrefixChars
         THEN <<"\n">> \o StripLinePrefixes(s,
                 SkipClass(s, SkipClass(s, i + 1, LinePrefixChars), Whitespace))
         ELSE <<s[i]>> \o StripLinePrefixes(s, i + 1)

clean_text(raw_text) ==
    LET t1 == EncodeDecode(raw_text)
        t2 == StripBullets(t1, bullet_chars)
        t3 == AsciiDashes(t2, dash_chars)
        t4 == CollapseDashes(t3, 1)
        t5 == SpaceDashes(t4, 1)
        t6 == NormalizeNewlines(t5, 1)
        t7 == RemoveClass(t6, {",", "_", "&"})
        t8 == RemoveArtifact(t7, 1, <<"c", "7">>)
        t9 == RemoveArtifact(t8, 1, <<"c", "2">>)
        t10 == RemoveArtifact(t9, 1, <<"b", "7">>)
        t11 == RemoveClass(t10, NonAscii)
        t12 == StripLinePrefixes(t11, 1)
    IN Strip(t12)

----------------------------------------------------------------------------
(* preprocess_text and the Line Segmenter *)

\* re.sub(r'\s+\n', '\n', s): a whitespace run is cut back to its last newline
RECURSIVE LastNewline(_, _, _)
LastNewline(s, j, i) ==
    IF j < i THEN 0
    ELSE IF s[j] = "\n" THEN j ELSE LastNewline(s, j - 1, i)
RECURSIVE TrimBeforeNewline(_, _)
TrimBeforeNewline(s, i) ==
    IF i > Len(s) THEN <<>>
    ELSE LET e == SkipClass(s, i, Whitespace)
             n == LastNewline(s, e - 1, i + 1)
         IN IF n > 0
            THEN <<"\n">> \o TrimBeforeNewline(s, n + 1)
            ELSE <<s[i]>> \o TrimBeforeNewline(s, i + 1)

preprocess_text(raw_text) == Strip(TrimBeforeNewline(raw_text, 1))

\* str.split(sep) for a one-character separator
RECURSIVE SplitFrom(_, _, _, _)
SplitFrom(s, i, start, sep) ==
    IF i > Len(s) THEN <<SubSeq(s, start, Len(s))>>
    ELSE IF s[i] = sep
         THEN <<SubSeq(s, start, i - 1)>> \o SplitFrom(s, i + 1, i + 1, sep)
         ELSE SplitFrom(s, i + 1, start, sep)
Split(s, sep) == SplitFrom(s, 1, 1, sep)

\* [f(x) for x in xs]
RECURSIVE StripAll(_)
StripAll(xs) == IF xs = <<>> THEN <<>> ELSE <<Strip(Head(xs))>> \o StripAll(Tail(xs))

\* [l.strip() for l in s.split('\n') if l.strip()]
StrippedLines(s) == SelectSeq(StripAll(Split(s, "\n")), LAMBDA l : l # <<>>)

\* sep.join(parts)
RECURSIVE Join(_, _)
Join(parts, sep) ==
    IF parts = <<>> THEN <<>>
    ELSE IF Len(parts) = 1 THEN parts[1]
         ELSE parts[1] \o sep \o Join(Tail(parts), sep)

\* whether the literal pat occurs anywhere in s (re.search of a literal)
Contains(s, pat) == \E i \in 1..Len(s) : StartsAt(s, i, pat)

----------------------------------------------------------------------------
(* extract_name *)

NameScanLines == 5

\* re.match(r'(?i)^name\s*[:\-]', line): index of the ':' or '-', or 0
NameLabelEnd(line) ==
    IF StartsAtCI(line, 1, <<"n", "a", "m", "e">>)
    THEN LET j == SkipClass(line, 5, Whitespace)
         IN IF j <= Len(line) /\ line[j] \in {":", "-"} THEN j ELSE 0
    ELSE 0

\* re.sub(r'(?i)^name\s*[:\-]\s*', '', line).strip()
StripNameLabel(line) ==
    Strip(From(line, SkipClass(line, NameLabelEnd(line) + 1, Whitespace)))

\* Rule 1: for line in lines: first line carrying the label
RECURSIVE NameRule1(_, _)
NameRule1(lines, i) ==
    IF i > Len(lines) THEN None
    ELSE IF NameLabelEnd(lines[i]) > 0
         THEN Str(StripNameLabel(lines[i]))
         ELSE NameRule1(lines, i + 1)

\* re.search(r'@|http|www|\d', line)
LooksLikeContact(line) ==
    \/ Contains(line, <<"@">>)
    \/ Contains(line, <<"h", "t", "t", "p">>)
    \/ Contains(line, <<"w", "w", "w">>)
    \/ \E i \in 1..Len(line) : line[i] \in Digits

\* re.match(r'^([A-Z][a-z]+\s+[A-Z][a-z]+)$', t)
TwoCapitalizedWords(t) ==
    /\ Len(t) >= 1
    /\ t[1] \in UpperLetters
    /\ LET j == SkipClass(t, 2, LowerLetters)
           k == SkipClass(t, j, Whitespace)
           m == SkipClass(t, k + 1, LowerLetters)
       IN /\ j > 2
          /\ k > j
          /\ k <= Len(t)
          /\ t[k] \in UpperLetters
          /\ m > k + 1
          /\ m = Len(t) + 1

\* a variant of Rule 3 that scans every line ("for line in lines")
RECURSIVE NameRule3All(_, _)
NameRule3All(lines, i) ==
    IF i > Len(lines) THEN None
    ELSE IF TwoCapitalizedWords(Strip(lines[i]))
         THEN Str(Strip(lines[i]))
         ELSE NameRule3All(lines, i + 1)

\* Rule 3: for line in lines[:5]
RECURSIVE NameRule3(_, _)
NameRule3(lines, i) ==
    IF i > Min(Len(lines), NameScanLines) THEN None
    ELSE IF TwoCapitalizedWords(Strip(lines[i]))
         THEN Str(Strip(lines[i]))
         ELSE NameRule3(lines, i + 1)

extract_name(lines) ==
    LET r1 == NameRule1(lines, 1)
    IN IF r1 # None THEN r1
       ELSE IF lines # <<>> /\ ~LooksLikeContact(lines[1])
            THEN Str(Strip(lines[1]))
            ELSE NameRule3(lines, 1)

----------------------------------------------------------------------------
(* extract_email, extract_phone, extract_location *)

SetMin(S) == CHOOSE i \in S : \A j \in S : i <= j

IsDigitsAt(s, i, n) ==
    /\ i >= 1
    /\ i + n - 1 <= Len(s)
    /\ \A k \in i..(i + n - 1) : s[k] \in Digits

\* [\w\.-]
EmailChars == WordChars \cup {".", "-"}

\* end of a match of [\w\.-]+@[\w\.-]+ starting at i, or 0
EmailEndAt(s, i) ==
    LET a == SkipClass(s, i, EmailChars)
        e == SkipClass(s, a + 1, EmailChars)
    IN IF a > i /\ a <= Len(s) /\ s[a] = "@" /\ e > a + 1 THEN e - 1 ELSE 0

extract_email(text) ==
    LET starts == {i \in 1..Len(text) : EmailEndAt(text, i) > 0}
    IN IF starts = {} THEN None
       ELSE Str(SubSeq(text, SetMin(starts), EmailEndAt(text, SetMin(starts))))

\* [-.\s]
PhoneSeparators == {"-", "."} \cup Whitespace

\* end of a match of \(?\d{3}\)?[-.\s]?\d{3}[-.\s]?\d{4} starting at i, or 0
PhoneEndAt(s, i) ==
    LET a == IF i <= Len(s) /\ s[i] = "(" THEN i + 1 ELSE i
        b == a + 3
        b2 == IF b <= Len(s) /\ s[b] = ")" THEN b + 1 ELSE b
        c == IF b2 <= Len(s) /\ s[b2] \in PhoneSeparators THEN b2 + 1 ELSE b2
        d == c + 3
        d2 == IF d <= Len(s) /\ s[d] \in PhoneSeparators THEN d + 1 ELSE d
    IN IF IsDigitsAt(s, a, 3) /\ IsDigitsAt(s, c, 3) /\ IsDigitsAt(s, d2, 4)
       THEN d2 + 3
       ELSE 0

extract_phone(text) ==
    LET starts == {i \in 1..Len(text) : PhoneEndAt(text, i) > 0}
    IN IF starts = {} THEN None
       ELSE Str(SubSeq(text, SetMin(starts), PhoneEndAt(text, SetMin(starts))))

\* \b between index i-1 and index i
WordBoundary(s, i) ==
    LET wordLeft == i - 1 >= 1 /\ i - 1 <= Len(s) /\ s[i - 1] \in WordChars
        wordRight == i >= 1 /\ i <= Len(s) /\ s[i] \in WordChars
    IN wordLeft # wordRight

\* end of a match of \b[A-Z][a-z]+,\s+[A-Z]{2}\b starting at i, or 0
LocationEndAt(s, i) ==
    LET j == SkipClass(s, i + 1, LowerLetters)
        k == SkipClass(s, j + 1, Whitespace)
    IN IF /\ s[i] \in UpperLetters
          /\ WordBoundary(s, i)
          /\ j > i + 1
          /\ j <= Len(s)
          /\ s[j] = ","
          /\ k > j + 1
          /\ k + 1 <= Len(s)
          /\ s[k] \in UpperLetters
          /\ s[k + 1] \in UpperLetters
          /\ WordBoundary(s, k + 2)
       THEN k + 1
       ELSE 0

\* re.search(r'\b([A-Z][a-z]+,\s+[A-Z]{2})\b', s).group(0), or None
LocationIn(s) ==
    LET starts == {i \in 1..Len(s) : LocationEndAt(s, i) > 0}
    IN IF starts = {} THEN None
       ELSE Str(SubSeq(s, SetMin(starts), LocationEndAt(s, SetMin(starts))))

RECURSIVE LocationScan(_, _)
LocationScan(lines, i) ==
    IF i > Len(lines) THEN None
    ELSE IF LocationIn(lines[i]) # None
         THEN Str(Strip(lines[i]))
         ELSE LocationScan(lines, i + 1)

extract_location(lines) == LocationScan(lines, 1)

----------------------------------------------------------------------------
(* extract_section: the definition at lines 101-104, which replaces the    *)
(* one at lines 88-91 before any extractor is called                       *)

SKILLS == <<"S","K","I","L","L","S">>
EDUCATION == <<"E","D","U","C","A","T","I","O","N">>
WORK_EXPERIENCE == <<"W","O","R","K"," ","E","X","P","E","R","I","E","N","C","E">>
CERTIFICATES == <<"C","E","R","T","I","F","I","C","A","T","E","S">>

\* whether (?:e1|e2|...|$) matches at index q
StopsAt(text, q, ends) ==
    \/ \E k \in 1..Len(ends) : StartsAtCI(text, q, ends[k])
    \/ q = Len(text) + 1
    \/ q = Len(text) /\ text[q] = "\n"

\* first index >= q where the stop alternative matches ([\s\S]*? is lazy)
RECURSIVE FirstStop(_, _, _)
FirstStop(text, q, ends) ==
    IF StopsAt(text, q, ends) THEN q ELSE FirstStop(text, q + 1, ends)

\* the span <<first, last>> of group(1) of the leftmost match, or <<0, 0>>
SectionSpan(text, start, ends) ==
    LET starts == {p \in 1..Len(text) : StartsAtCI(text, p, start)}
    IN IF starts = {} THEN <<0, 0>>
       ELSE LET from == SetMin(starts) + Len(start)
            IN <<from, FirstStop(text, from, ends) - 1>>

\* a variant that falls back to the whole text when the start keyword is missing
extract_section_or_text(text, start, ends) ==
    LET span == SectionSpan(text, start, ends)
    IN IF span[1] = 0 THEN Str(Strip(text))
       ELSE Str(Strip(SubSeq(text, span[1], span[2])))

extract_section(text, start, ends) ==
    LET span == SectionSpan(text, start, ends)
    IN IF span[1] = 0 THEN None
       ELSE Str(Strip(SubSeq(text, span[1], span[2])))

----------------------------------------------------------------------------
(* extract_skills, extract_education *)

Bar == <<" ", "|", " ">>

\* re.split(r'[class]+', s)
RECURSIVE SplitRuns(_, _, _, _)
SplitRuns(s, i, start, class) ==
    IF i > Len(s) THEN <<SubSeq(s, start, Len(s))>>
    ELSE IF s[i] \in class
         THEN LET e == SkipClass(s, i, class)
              IN <<SubSeq(s, start, i - 1)>> \o SplitRuns(s, e, e, class)
         ELSE SplitRuns(s, i + 1, start, class)

NonEmptyStripped(parts) == SelectSeq(StripAll(parts), LAMBDA l : l # <<>>)

SkillsStops == <<WORK_EXPERIENCE, EDUCATION, CERTIFICATES>>
extract_skills(text) ==
    LET skills_block == extract_section(text, SKILLS, SkillsStops)
    IN IF ~Truthy(skills_block) THEN Str(<<>>)
       ELSE Str(Join(NonEmptyStripped(
                SplitRuns(skills_block.val, 1, 1, {",", "\n", ";", Bullet})), Bar))

EducationStops == <<SKILLS, WORK_EXPERIENCE, CERTIFICATES>>
extract_education(text) ==
    LET edu_block == extract_section(text, EDUCATION, EducationStops)
    IN IF ~Truthy(edu_block) THEN EmptyDict
       ELSE LET clean_lines == StrippedLines(edu_block.val)
            IN IF clean_lines # <<>> THEN Str(Join(clean_lines, Bar)) ELSE None

----------------------------------------------------------------------------
(* extract_work_experience *)

\* whether \w.*\s-\s matches at index i ('.' matches anything but '\n')
RECURSIVE DashLater(_, _)
DashLater(s, q) ==
    IF q + 2 > Len(s) THEN FALSE
    ELSE IF s[q] \in Whitespace /\ s[q + 1] = "-" /\ s[q + 2] \in Whitespace
         THEN TRUE
         ELSE IF s[q] = "\n" THEN FALSE ELSE DashLater(s, q + 1)
HeaderLineAt(s, i) ==
    /\ i <= Len(s)
    /\ s[i] \in WordChars
    /\ DashLater(s, i + 1)

\* re.split(r'\n(?=\w.*\s-\s)', s)
RECURSIVE SplitBlocks(_, _, _)
SplitBlocks(s, i, start) ==
    IF i > Len(s) THEN <<SubSeq(s, start, Len(s))>>
    ELSE IF s[i] = "\n" /\ HeaderLineAt(s, i + 1)
         THEN <<SubSeq(s, start, i - 1)>> \o SplitBlocks(s, i + 1, i + 1)
         ELSE SplitBlocks(s, i + 1, start)

CURRENT == <<"c","u","r","r","e","n","t">>

\* end of a match of [A-Za-z]+\s+\d{4} starting at i, or 0
MonthYearEndAt(s, i) ==
    LET a == SkipClass(s, i, Letters)
        b == SkipClass(s, a, Whitespace)
    IN IF a > i /\ b > a /\ IsDigitsAt(s, b, 4) THEN b + 3 ELSE 0

\* match of ([A-Za-z]+\s+\d{4})\s*-\s*(current|[A-Za-z]+\s+\d{4}) starting at i,
\* under re.IGNORECASE: <<end of group 1, start of group 2, end of group 2>> or <<0, 0, 0>>
DateMatchAt(s, i) ==
    LET g1 == MonthYearEndAt(s, i)
        c == SkipClass(s, g1 + 1, Whitespace)
        d == SkipClass(s, c + 1, Whitespace)
    IN IF g1 > 0 /\ c <= Len(s) /\ s[c] = "-"
       THEN IF StartsAtCI(s, d, CURRENT) THEN <<g1, d, d + Len(CURRENT) - 1>>
            ELSE IF MonthYearEndAt(s, d) > 0 THEN <<g1, d, MonthYearEndAt(s, d)>>
                 ELSE <<0, 0, 0>>
       ELSE <<0, 0, 0>>

\* f"{date_match.group(1)} - {date_match.group(2)}" if date_match else ""
Duration(meta_line) ==
    LET starts == {i \in 1..Len(meta_line) : DateMatchAt(meta_line, i)[1] > 0}
    IN IF starts = {} THEN <<>>
       ELSE LET i == SetMin(starts)
                m == DateMatchAt(meta_line, i)
            IN SubSeq(meta_line, i, m[1]) \o <<" ", "-", " ">> \o SubSeq(meta_line, m[2], m[3])

\* location_match.group(0) if location_match else fallback_location or ""
BlockLocation(meta_line, fallback_location) ==
    IF LocationIn(meta_line) # None THEN LocationIn(meta_line).val
    ELSE IF Truthy(fallback_location) THEN fallback_location.val ELSE <<>>

\* the entry built from the stripped non-empty lines of one block
BlockEntry(lines, fallback_location) ==
    LET title_line == lines[1]
        meta_line == IF Len(lines) > 1 THEN lines[2] ELSE <<>>
        description_lines == IF Len(lines) > 2 THEN SubSeq(lines, 3, Len(lines)) ELSE <<>>
        duration == Duration(meta_line)
        location == BlockLocation(meta_line, fallback_location)
        p1 == <<title_line>>
        p2 == IF duration # <<>> \/ location # <<>>
              THEN p1 \o <<StripChars(duration \o Bar \o location, {" ", "|"})>>
              ELSE p1
        p3 == IF description_lines # <<>>
              THEN p2 \o <<Join(description_lines, <<" ">>)>>
              ELSE p2
    IN [text |-> Join(SelectSeq(p3, LAMBDA x : x # <<>>), Bar)]

\* for block in blocks: blocks without a non-empty line are skipped
RECURSIVE BlockEntries(_, _)
BlockEntries(blocks, fallback_location) ==
    IF blocks = <<>> THEN <<>>
    ELSE LET lines == StrippedLines(Head(blocks))
         IN (IF lines = <<>> THEN <<>> ELSE <<BlockEntry(lines, fallback_location)>>)
            \o BlockEntries(Tail(blocks), fallback_location)

WorkStops == <<EDUCATION, SKILLS, CERTIFICATES>>
extract_work_experience(text, fallback_location) ==
    LET work_block == extract_section(text, WORK_EXPERIENCE, WorkStops)
    IN IF ~Truthy(work_block) THEN <<>>
       ELSE BlockEntries(SplitBlocks(work_block.val, 1, 1), fallback_location)

----------------------------------------------------------------------------
(* extract_structured_fields, extract_info_from_pdf *)

\* the text and the lines handed to the extractors (lines 153-154)
HandedText(text) == preprocess_text(text)
HandedLines(text) == StrippedLines(HandedText(text))

extract_structured_fields(text) ==
    LET t == HandedText(text)
        lines == HandedLines(text)
    IN [name |-> extract_name(lines),
        email |-> extract_email(t),
        phone |-> extract_phone(t),
        location |-> extract_location(lines),
        skills |-> extract_skills(t),
        education |-> extract_education(t),
        work_experience |-> extract_work_experience(t, extract_location(lines))]

\* "\n".join(page.get_text() for page in doc), then extract_structured_fields
extract_info_from_pdf(pages) == extract_structured_fields(Join(pages, <<"\n">>))

----------------------------------------------------------------------------
(* cv.py: documents and the vector store.  The store is the ordered dict   *)
(* store.docstore._dict; its keys are fresh uuids that carry no data, so a *)
(* store is the sequence of its Documents in insertion order and a doc_id  *)
(* is a position in it.                                                    *)

NoStore == [exists |-> FALSE, docs |-> <<>>]
StoreOf(docs) == [exists |-> TRUE, docs |-> docs]

\* Document(page_content=f"Name: {...}. Email: {...}. ...", metadata={"email": ...}):
\* the page content is the record's seven fields between constant labels
get_content_from_doc(doc) ==
    [page_content |-> <<doc.name, doc.email, doc.phone, doc.location,
                        doc.skills, doc.education, doc.work_experience>>,
     metadata |-> [email |-> doc.email]]

\* FAISS.from_documents(documents, embedding)
from_documents(documents) == StoreOf(documents)
\* store.add_documents([doc])
add_documents(st, doc) == StoreOf(Append(st.docs, doc))

\* a variant with the filter inverted ("if doc_id in to_remove")
RECURSIVE KeepMatching(_, _, _)
KeepMatching(docs, i, to_remove) ==
    IF i > Len(docs) THEN <<>>
    ELSE (IF i \in to_remove THEN <<docs[i]>> ELSE <<>>)
         \o KeepMatching(docs, i + 1, to_remove)

\* [doc for doc_id, doc in existing_docs.items() if doc_id not in to_remove]
RECURSIVE KeepExcept(_, _, _)
KeepExcept(docs, i, to_remove) ==
    IF i > Len(docs) THEN <<>>
    ELSE (IF i \in to_remove THEN <<>> ELSE <<docs[i]>>)
         \o KeepExcept(docs, i + 1, to_remove)

\* a variant that never removes the documents with the same key
add_without_removal(st, doc) == add_documents(st, doc)

\* the store returned (and saved) by add_or_update_document, unique_key "email"
add_or_update_document(st, doc) ==
    LET existing_docs == st.docs
        new_key_value == doc.metadata.email
        to_remove == {i \in 1..Len(existing_docs) :
                        existing_docs[i].metadata.email = new_key_value}
    IN IF to_remove # {}
       THEN from_documents(Append(KeepExcept(existing_docs, 1, to_remove), doc))
       ELSE add_documents(st, doc)

----------------------------------------------------------------------------
(* Idle values of the variables a specification does not use *)

CleanIdle == cText = <<>> /\ cPrev = <<>> /\ cPasses = 0
NameIdle == nLines = <<>> /\ nResult = None /\ nPc = "idle"
SectionIdle ==
    /\ sText = <<>>
    /\ sSkills = None
    /\ sEducation = None
    /\ sWork = <<>>
    /\ sDone = {}
WorkIdle ==
    /\ wLines = <<>>
    /\ wText = <<>>
    /\ wFallback = None
    /\ wResult = <<>>
    /\ wPc = "idle"
MainIdle ==
    /\ folder = <<>>
    /\ idx = 0
    /\ all_data = <<>>
    /\ full_text = <<>>
    /\ handed = <<>>
    /\ pc = "idle"
    /\ store = NoStore
    /\ disk = NoStore
    /\ upd = 0
    /\ fresh = FALSE
    /\ before = <<>>
    /\ new_doc = None

\* all strings over alphabet of length at most n
StringsUpTo(alphabet, n) == UNION {[1..k -> alphabet] : k \in 0..n}

----------------------------------------------------------------------------
(* SpecClean: clean_text applied to a raw text, then to its own output *)

MaxRawLen == 4
MaxPasses == 2
CleanAlphabet == {"a", "c", "7", "-", " ", "\n", "\r", ","}

InitClean ==
    /\ cText \in StringsUpTo(CleanAlphabet, MaxRawLen)
    /\ cPrev = <<>>
    /\ cPasses = 0
    /\ NameIdle /\ SectionIdle /\ WorkIdle /\ MainIdle

CleanText ==
    /\ cPasses < MaxPasses
    /\ cPrev' = cText
    /\ cText' = clean_text(cText)
    /\ cPasses' = cPasses + 1
    /\ UNCHANGED <<nameVars, sectionVars, workVars, mainVars>>

NextClean == CleanText
SpecClean == InitClean /\ [][NextClean]_vars

----------------------------------------------------------------------------
(* SpecName: extract_name applied to the lines of a document.  The lines   *)
(* are those the Line Segmenter produces: trimmed and non-empty.           *)

MaxNameLines == 6
NameLineOptions == {
    <<"n","A","m","e"," ",":"," ","A","l">>,  \* "nAme : Al"
    <<"A","l"," ","B","o">>,  \* "Al Bo"
    <<"a","@","b">>,  \* "a@b"
    <<"h","t","t","p">>,  \* "http"
    <<"x","7">>,  \* "x7"
    <<"w","w","w">>}  \* "www"

\* all sequences over options of length at most n
SeqsUpTo(options, n) == UNION {[1..k -> options] : k \in 0..n}

InitName ==
    /\ nLines \in SeqsUpTo(NameLineOptions, MaxNameLines)
    /\ nResult = None
    /\ nPc = "start"
    /\ CleanIdle /\ SectionIdle /\ WorkIdle /\ MainIdle

ExtractName ==
    /\ nPc = "start"
    /\ nResult' = extract_name(nLines)
    /\ nPc' = "done"
    /\ UNCHANGED <<nLines, cleanVars, sectionVars, workVars, mainVars>>

NextName == ExtractName
SpecName == InitName /\ [][NextName]_vars

----------------------------------------------------------------------------
(* SpecSection: extract_skills, extract_education and                      *)
(* extract_work_experience applied to one text, in the order               *)
(* extract_structured_fields calls them                                    *)

MaxFragments == 4
Fragments == <<
    <<"S","K","I","L","L","S">>,  \* "SKILLS"
    <<"E","d","u","c","a","t","i","o","n">>,  \* "Education"
    <<"W","O","R","K"," ","E","X","P","E","R","I","E","N","C","E">>,  \* "WORK EXPERIENCE"
    <<"C","E","R","T","I","F","I","C","A","T","E","S">>,  \* "CERTIFICATES"
    <<"W","O","R","K"," ","E","X","P","E","R","I","E","N","C","E","D","U","C","A","T","I","O","N">>,  \* "WORK EXPERIENCEDUCATION"
    <<"\n">>,  \* "\n"
    <<"G","o",","," ","C">>,  \* "Go, C"
    <<"S","k","i","l","l">>>>  \* "Skill"

\* the texts made of at most n fragments
RECURSIVE Concat(_)
Concat(parts) == IF parts = <<>> THEN <<>> ELSE Head(parts) \o Concat(Tail(parts))
TextsUpTo(n) ==
    {Concat([i \in DOMAIN f |-> Fragments[f[i]]]) :
        f \in UNION {[1..k -> 1..Len(Fragments)] : k \in 0..n}}

InitSection ==
    /\ sText \in TextsUpTo(MaxFragments)
    /\ sSkills = None
    /\ sEducation = None
    /\ sWork = <<>>
    /\ sDone = {}
    /\ CleanIdle /\ NameIdle /\ WorkIdle /\ MainIdle

ExtractSkills ==
    /\ sDone = {}
    /\ sSkills' = extract_skills(sText)
    /\ sDone' = {"skills"}
    /\ UNCHANGED <<sText, sEducation, sWork, cleanVars, nameVars, workVars, mainVars>>

ExtractEducation ==
    /\ sDone = {"skills"}
    /\ sEducation' = extract_education(sText)
    /\ sDone' = {"skills", "education"}
    /\ UNCHANGED <<sText, sSkills, sWork, cleanVars, nameVars, workVars, mainVars>>

ExtractWorkExperience ==
    /\ sDone = {"skills", "education"}
    /\ sWork' = extract_work_experience(sText, None)
    /\ sDone' = {"skills", "education", "work"}
    /\ UNCHANGED <<sText, sSkills, sEducation, cleanVars, nameVars, workVars, mainVars>>

NextSection == ExtractSkills \/ ExtractEducation \/ ExtractWorkExperience
SpecSection == InitSection /\ [][NextSection]_vars

----------------------------------------------------------------------------
(* SpecWork: extract_work_experience applied to a WORK EXPERIENCE section  *)
(* of up to MaxWorkLines lines, terminated by the EDUCATION keyword        *)

MaxWorkLines == 3
\* "Dev - Acme"
TitleLine == <<"D","e","v"," ","-"," ","A","c","m","e">>
\* "June 2019 - current | Austin, TX"
MetaCurrentLine ==
    <<"J","u","n","e"," ","2","0","1","9"," ","-"," ","c","u","r","r","e","n","t"," ","|"," ","A","u","s","t","i","n",","," ","T","X">>
\* "May 2020-June 2021"
MetaRangeLine == <<"M","a","y"," ","2","0","2","0","-","J","u","n","e"," ","2","0","2","1">>
\* "Built things."
BuiltThings == <<"B","u","i","l","t"," ","t","h","i","n","g","s",".">>
\* "Led team."
LedTeam == <<"L","e","d"," ","t","e","a","m",".">>
HeaderLines == {TitleLine}
MetaLines == {MetaCurrentLine, MetaRangeLine}
DescriptionLines == {BuiltThings, LedTeam}
WorkLineOptions == HeaderLines \cup MetaLines \cup DescriptionLines
FallbackOptions == {None, Str(<<"B","o","s","t","o","n",","," ","M","A">>)}

WorkText(lines) ==
    WORK_EXPERIENCE \o <<"\n">> \o Join(lines, <<"\n">>) \o <<"\n">> \o EDUCATION

InitWork ==
    /\ wLines \in SeqsUpTo(WorkLineOptions, MaxWorkLines)
    /\ wText = WorkText(wLines)
    /\ wFallback \in FallbackOptions
    /\ wResult = <<>>
    /\ wPc = "start"
    /\ CleanIdle /\ NameIdle /\ SectionIdle /\ MainIdle

ExtractWork ==
    /\ wPc = "start"
    /\ wResult' = extract_work_experience(wText, wFallback)
    /\ wPc' = "done"
    /\ UNCHANGED <<wLines, wText, wFallback, cleanVars, nameVars, sectionVars, mainVars>>

NextWork == ExtractWork
SpecWork == InitWork /\ [][NextWork]_vars

----------------------------------------------------------------------------
(* Spec: main() of cv.py over a folder of files: extract_from_folder, then *)
(* create_or_load_vector_store, then add_or_update_document per record.    *)
(* The retriever and the chat loop that follow keep the store as it is.    *)

MaxFiles == 3

\* a file of the folder: whether its name ends in ".pdf" (case-insensitively)
\* and the text of each of its pages
File(is_pdf, pages) == [is_pdf |-> is_pdf, pages |-> pages]
FileOptions == {
    File(TRUE, <<<<"A","l"," ","B","o","\n","a","l","@","x",".","i","o">>, <<"S","K","I","L","L","S","\n","G","o",","," ","C">>>>),
    File(TRUE, <<<<"N","a","m","e",":"," ","C","y","\n","c","y","@","x",".","i","o"," ","\n","A","u","s","t","i","n",","," ","T","X">>>>),
    File(TRUE, <<<<"A","l"," ","B","o","\n","a","l","@","x",".","i","o","\n","E","D","U","C","A","T","I","O","N","\n","B","S","c">>>>),
    File(TRUE, <<<<"D","i"," ","E","k","\n","5","5","5","-","1","2","3","-","4","5","6","7">>>>),
    File(FALSE, <<<<"n","o","t","e","s">>>>)}

\* the stores an earlier run of main may have saved under PERSIST_PATH
SavedDoc(text) == get_content_from_doc(extract_structured_fields(text))
DiskOptions == {
    NoStore,
    StoreOf(<<SavedDoc(<<"A","l"," ","B","o","\n","a","l","@","x",".","i","o">>)>>),
    StoreOf(<<SavedDoc(<<"Z","e","d","\n","z","e","d","@","x",".","i","o">>), SavedDoc(<<"A","l"," ","B","o","\n","a","l","@","x",".","i","o">>)>>)}

Init ==
    /\ folder \in SeqsUpTo(FileOptions, MaxFiles)
    /\ idx = 1
    /\ all_data = <<>>
    /\ full_text = <<>>
    /\ handed = <<>>
    /\ pc = "extract_from_folder"
    /\ store = NoStore
    /\ disk \in DiskOptions
    /\ upd = 0
    /\ fresh = FALSE
    /\ before = <<>>
    /\ new_doc = None
    /\ CleanIdle /\ NameIdle /\ SectionIdle /\ WorkIdle

unusedVars == <<cleanVars, nameVars, sectionVars, workVars>>

\* extract_from_folder: one iteration on a file whose name ends in ".pdf"
ExtractInfoFromPdf ==
    /\ pc = "extract_from_folder"
    /\ idx <= Len(folder)
    /\ folder[idx].is_pdf
    /\ full_text' = Join(folder[idx].pages, <<"\n">>)
    /\ handed' = HandedText(full_text')
    /\ all_data' = Append(all_data, extract_info_from_pdf(folder[idx].pages))
    /\ idx' = idx + 1
    /\ UNCHANGED <<folder, storeVars, unusedVars>>

\* extract_from_folder: one iteration on any other file
SkipOtherFile ==
    /\ pc = "extract_from_folder"
    /\ idx <= Len(folder)
    /\ ~folder[idx].is_pdf
    /\ idx' = idx + 1
    /\ UNCHANGED <<folder, all_data, full_text, handed, storeVars, unusedVars>>

\* extract_from_folder returns results
ReturnResults ==
    /\ pc = "extract_from_folder"
    /\ idx > Len(folder)
    /\ pc' = "create_or_load"
    /\ UNCHANGED <<folderVars, store, disk, upd, fresh, before, new_doc, unusedVars>>

\* main: no first document
NoDocuments ==
    /\ pc = "create_or_load"
    /\ all_data = <<>>
    /\ pc' = "exit"
    /\ UNCHANGED <<folderVars, store, disk, upd, fresh, before, new_doc, unusedVars>>

\* create_or_load_vector_store: the index files exist
LoadStore ==
    /\ pc = "create_or_load"
    /\ all_data # <<>>
    /\ disk.exists
    /\ store' = disk
    /\ pc' = "update"
    /\ upd' = 1
    /\ UNCHANGED <<folderVars, disk, fresh, before, new_doc, unusedVars>>

\* create_or_load_vector_store: a new store of the first document
CreateStore ==
    /\ pc = "create_or_load"
    /\ all_data # <<>>
    /\ ~disk.exists
    /\ store' = from_documents(<<get_content_from_doc(all_data[1])>>)
    /\ disk' = store'
    /\ fresh' = TRUE
    /\ pc' = "update"
    /\ upd' = 1
    /\ UNCHANGED <<folderVars, before, new_doc, unusedVars>>

\* main: one iteration of "for data in all_data"
AddOrUpdateDocument ==
    /\ pc = "update"
    /\ upd <= Len(all_data)
    /\ new_doc' = get_content_from_doc(all_data[upd])
    /\ before' = store.docs
    /\ store' = add_or_update_document(store, new_doc')
    /\ disk' = store'
    /\ upd' = upd + 1
    /\ UNCHANGED <<folderVars, pc, fresh, unusedVars>>

\* main: the loop is over, the store's size is printed
Finish ==
    /\ pc = "update"
    /\ upd > Len(all_data)
    /\ pc' = "done"
    /\ UNCHANGED <<folderVars, store, disk, upd, fresh, before, new_doc, unusedVars>>

Next ==
    \/ ExtractInfoFromPdf
    \/ SkipOtherFile
    \/ ReturnResults
    \/ NoDocuments
    \/ LoadStore
    \/ CreateStore
    \/ AddOrUpdateDocument
    \/ Finish
Spec == Init /\ [][Next]_vars

----------------------------------------------------------------------------
(* Properties of clean_text (SpecClean) *)

\* C1: clean_text is idempotent: a second pass over the output of the first
\* pass returns it unchanged.
C1_CleanTextIdempotent == cPasses = 2 => cText = cPrev

\* C8: the output of clean_text holds no carriage return and no two adjacent
\* newline characters.
C8_LineBreaksCollapsed ==
    cPasses >= 1 =>
        /\ ~Contains(cText, <<"\r">>)
        /\ ~Contains(cText, <<"\n", "\n">>)

----------------------------------------------------------------------------
(* Properties of extract_name (SpecName) *)

\* line = 'name' (any case), whitespace, ':' or '-', whitespace, rest
IsLabelWith(line, rest) ==
    /\ Len(line) >= 5
    /\ SameCI(line[1], "n") /\ SameCI(line[2], "a")
    /\ SameCI(line[3], "m") /\ SameCI(line[4], "e")
    /\ \E j \in 5..Len(line) : \E k \in j..Len(line) :
        /\ line[j] \in {":", "-"}
        /\ \A m \in 5..(j - 1) : line[m] \in Whitespace
        /\ \A m \in (j + 1)..k : line[m] \in Whitespace
        /\ rest = SubSeq(line, k + 1, Len(line))
        /\ (rest = <<>> \/ rest[1] \notin Whitespace)
HasLabel(line) == \E k \in 0..Len(line) : IsLabelWith(line, SubSeq(line, k + 1, Len(line)))

\* an uppercase letter and one or more lowercase letters
Capitalized(w) ==
    /\ Len(w) >= 2
    /\ w[1] \in UpperLetters
    /\ \A m \in 2..Len(w) : w[m] \in LowerLetters
ExactlyTwoCapitalized(line) ==
    \E a \in 1..Len(line) : \E b \in (a + 1)..Len(line) :
        /\ Capitalized(SubSeq(line, 1, a))
        /\ \A m \in (a + 1)..(b - 1) : line[m] \in Whitespace
        /\ b > a + 1
        /\ Capitalized(SubSeq(line, b, Len(line)))

FirstLineIsPlain ==
    /\ nLines # <<>>
    /\ \A m \in 1..Len(nLines[1]) : nLines[1][m] \notin Digits \cup {"@"}
    /\ ~Contains(nLines[1], <<"h", "t", "t", "p">>)
    /\ ~Contains(nLines[1], <<"w", "w", "w">>)

\* C5: extract_name applies its three tiers in priority order: the first
\* labelled line of the whole document with its label stripped; else the first
\* line when it has no '@', 'http', 'www' or digit; else the first of the first
\* five lines that is exactly two capitalized words; else absent.
C5_NameTiers ==
    nPc = "done" =>
        LET labelled == {i \in 1..Len(nLines) : HasLabel(nLines[i])}
            pairs == {i \in 1..Len(nLines) : i <= 5 /\ ExactlyTwoCapitalized(nLines[i])}
        IN IF labelled # {}
           THEN nResult.kind = "str" /\ IsLabelWith(nLines[SetMin(labelled)], nResult.val)
           ELSE IF FirstLineIsPlain
                THEN nResult = Str(nLines[1])
                ELSE IF pairs # {}
                     THEN nResult = Str(nLines[SetMin(pairs)])
                     ELSE nResult = None

\* the third tier is reached, and the only two-word line lies beyond the fifth
C5_Witness ==
    /\ nPc = "done"
    /\ Len(nLines) = 6
    /\ ExactlyTwoCapitalized(nLines[6])
    /\ \A i \in 1..5 : ~HasLabel(nLines[i]) /\ ~ExactlyTwoCapitalized(nLines[i])
    /\ ~FirstLineIsPlain
    /\ nResult = None

----------------------------------------------------------------------------
(* Properties of the section extractors (SpecSection, SpecWork) *)

SectionKeywords == {SKILLS, WORK_EXPERIENCE, EDUCATION, CERTIFICATES}
HasKeyword(text, kw) ==
    \E i \in 1..Len(text) :
        /\ i + Len(kw) - 1 <= Len(text)
        /\ \A k \in 1..Len(kw) : SameCI(text[i + k - 1], kw[k])
NoSectionKeyword(text) == \A kw \in SectionKeywords : ~HasKeyword(text, kw)

\* C3: on a text with no section keyword (in any letter case) extract_skills
\* returns the empty string, extract_education an absent or empty value and
\* extract_work_experience the empty sequence.
C3_NoKeywordNoSection ==
    NoSectionKeyword(sText) =>
        /\ "skills" \in sDone => sSkills = Str(<<>>)
        /\ "education" \in sDone => ~Truthy(sEducation)
        /\ "work" \in sDone => sWork = <<>>

C3_Witness ==
    /\ sDone = {"skills", "education", "work"}
    /\ NoSectionKeyword(sText)
    /\ Contains(sText, <<"G", "o", ",", " ", "C", "\n">>)
    /\ Contains(sText, <<"S", "k", "i", "l", "l">>)

\* C6: extract_education returns the absent value when the text has no
\* EDUCATION section or the section has no non-empty line, and otherwise the
\* section's trimmed non-empty lines joined by " | "; never any other empty value.
C6_EducationAbsentOrText ==
    "education" \in sDone =>
        LET span == SectionSpan(sText, EDUCATION, EducationStops)
            lines == IF span[1] = 0 THEN <<>>
                     ELSE StrippedLines(SubSeq(sText, span[1], span[2]))
        IN IF lines = <<>>
           THEN sEducation.kind = "None"
           ELSE sEducation = Str(Join(lines, Bar))

Positions(span) == IF span[1] = 0 THEN {} ELSE span[1]..span[2]

\* C9: the content spans of the SKILLS, EDUCATION and WORK EXPERIENCE sections
\* of a text are pairwise non-overlapping.
C9_SpansDisjoint ==
    sDone = {"skills", "education", "work"} =>
    LET skills == Positions(SectionSpan(sText, SKILLS, SkillsStops))
        education == Positions(SectionSpan(sText, EDUCATION, EducationStops))
        work == Positions(SectionSpan(sText, WORK_EXPERIENCE, WorkStops))
    IN /\ skills \cap education = {}
       /\ skills \cap work = {}
       /\ education \cap work = {}

\* "June 2019 - current"
JuneToCurrent ==
    <<"J","u","n","e"," ","2","0","1","9"," ","-"," ","c","u","r","r","e","n","t">>
\* "Austin, TX"
AustinTX == <<"A","u","s","t","i","n",","," ","T","X">>

\* C2: a WORK EXPERIENCE section of one "Title - Company" line, one
\* "Month Year - current | City, ST" line and description lines yields exactly
\* one entry, whose text holds the duration, the location and the description
\* joined by " | ".
C2_OneEntryPerJob ==
    (/\ wPc = "done"
     /\ Len(wLines) >= 3
     /\ wLines[1] = TitleLine
     /\ wLines[2] = MetaCurrentLine
     /\ \A i \in 3..Len(wLines) : wLines[i] \in DescriptionLines)
    => /\ Len(wResult) = 1
       /\ Contains(wResult[1].text,
                   JuneToCurrent \o Bar \o AustinTX \o Bar
                       \o Join(SubSeq(wLines, 3, Len(wLines)), <<" ">>))

----------------------------------------------------------------------------
(* Properties of main (Spec) *)

\* C7: the text segmented into lines and handed to the extractors has first
\* been passed through clean_text.
C7_NormalizedBeforeExtraction ==
    all_data # <<>> => handed = preprocess_text(clean_text(full_text))

NumPdf == Cardinality({i \in 1..Len(folder) : folder[i].is_pdf})
DistinctEmails ==
    \A i, j \in 1..Len(all_data) : i # j => all_data[i].email # all_data[j].email
WithEmail(docs, email) == {i \in 1..Len(docs) : docs[i].metadata.email = email}

\* C4: a folder of N PDF documents yields exactly N records, and when their
\* emails are pairwise distinct and main feeds them into a freshly created
\* store, the store ends with exactly N documents, one per email.
C4_OneDocumentPerPdf ==
    /\ pc # "extract_from_folder" => Len(all_data) = NumPdf
    /\ (pc = "done" /\ fresh /\ DistinctEmails) =>
        /\ Len(store.docs) = NumPdf
        /\ \A i \in 1..Len(all_data) :
            Cardinality(WithEmail(store.docs, all_data[i].email)) = 1

C4_Witness ==
    /\ pc = "done"
    /\ fresh
    /\ DistinctEmails
    /\ NumPdf = 3
    /\ Len(folder) = 3
    /\ \E i \in 1..3 : all_data[i].email = None

\* C10: the store holds at most one document per email value; after a call of
\* add_or_update_document it holds exactly one document with the new document's
\* email, the new document itself, and every document with another email that
\* it held before the call.
C10_OneDocumentPerEmail ==
    store.exists =>
        /\ \A i, j \in 1..Len(store.docs) :
            store.docs[i].metadata.email = store.docs[j].metadata.email => i = j
        /\ upd > 1 =>
            /\ \E i \in 1..Len(store.docs) :
                /\ WithEmail(store.docs, new_doc.metadata.email) = {i}
                /\ store.docs[i] = new_doc
            /\ \A j \in 1..Len(before) :
                before[j].metadata.email # new_doc.metadata.email
                    => \E i \in 1..Len(store.docs) : store.docs[i] = before[j]

\* a call that replaced an older document and kept one with another email
C10_Witness ==
    /\ upd > 1
    /\ \E j \in 1..Len(before) :
        /\ before[j].metadata.email = new_doc.metadata.email
        /\ before[j] # new_doc
    /\ \E j \in 1..Len(before) : before[j].metadata.email # new_doc.metadata.email
    /\ Len(store.docs) = Len(before)

====
